---- MODULE Spec2Model ----
(***************************************************************************)
(* update_examples.py: the batch migration of the Gun examples and tests   *)
(* to BLS key pairs.                                                       *)
(*                                                                         *)
(* A text is a sequence of lexemes (strings); the text it stands for is    *)
(* their concatenation.  The lexemes are cut so that every substring test  *)
(* and every regular expression of the script is decided by whole lexemes: *)
(* a ";" never hides inside another lexeme, white space that a pattern's   *)
(* \s+ can capture is a lexeme of its own, and the literals the script     *)
(* looks for ('use gun::', 'Gun::new()', ...) never straddle two lexemes.  *)
(***************************************************************************)
EXTENDS Integers, Sequences, FiniteSets, TLC

VARIABLES
    fs,                \* the files on disk: path -> text
    fs0,               \* the files as they were before the first run
    runs,              \* invocations of the script so far
    io_failed,         \* some open/read/write has raised so far
    pc,                \* position of the running script
    files_to_update,   \* main: the list the two globs filled
    sorted_files,      \* main: sorted(files_to_update), the list iterated
    idx,               \* main: position of the for loop in sorted_files
    updated_count,     \* main: updated_count
    output,            \* what this invocation has printed
    io_log,            \* this invocation's opens: read / write, path, outcome
    content,           \* update_file: content
    original_content,  \* update_file: original_content
    updated,           \* update_file: updated
    lines,             \* update_file: lines (options pass)
    new_lines,         \* update_file: new_lines (options pass)
    key_counter,       \* update_file: key_counter
    ret                \* update_file's return value

vars == <<fs, fs0, runs, io_failed, pc, files_to_update, sorted_files, idx,
          updated_count, output, io_log, content, original_content, updated,
          lines, new_lines, key_counter, ret>>

(***************************************************************************)
(* Bounds of the model.                                                    *)
(***************************************************************************)
MaxLines == 3      \* lines of the one file of Spec
MaxRuns == 2       \* invocations of the script
NumFiles == 2      \* files of SpecMain
MainLines == 2     \* lines of each file of SpecMain

(***************************************************************************)
(* Lexemes.                                                                *)
(***************************************************************************)
NL == "\n"
IND == "    "
SEMI == ";"
USE_GUN == "use gun::Gun"
USE_CHIA == "use chia_bls::{SecretKey, PublicKey}"
USE_STD == "use std::sync::Arc"
COMMENT == "// use gun::Gun here"
LET_GUN == "let gun = "
LET_NODE == "let node = "
LET_G == "let g = "
LET_G_MATCH == "let g = match "
ARC_NEW == "Arc::new("
GUN_NEW == "Gun::new()"
RPAREN == ")"
WITH_OPTIONS == "Gun::with_options("
OPTIONS == "options"
AWAIT == ".await"
BRACE == " {"
GEN_COMMENT == "// Generate BLS key pair"
SEED_TAIL == " 32])"
PUBLIC_KEY0 == "let public_key = secret_key.public_key()"
GUN_NEW_KEYS == "Gun::new(secret_key, public_key)"

\* 'SecretKey::from_seed(&[', the call every key-generation statement makes
FROM_SEED == "SecretKey::from_seed(&["

\* 'let secret_key = ' and '0u8' of the no-argument rewriter's
\* 'let secret_key = SecretKey::from_seed(&[0u8; 32]);'
LET_SECRET_KEY0 == "let secret_key = "
SEED0 == "0u8"

\* f'let secret_key{key_counter} = ' and f'{key_counter}u8' of the options
\* rewriter's
\* f'let secret_key{key_counter} = SecretKey::from_seed(&[{key_counter}u8; 32]);'
LetSecretKey(k) == "let secret_key" \o ToString(k) \o " = "

Seed(k) == ToString(k) \o "u8"

\* f'let public_key{key_counter} = secret_key{key_counter}.public_key();'
\* without its ';'
PublicKeyStmt(k) ==
    "let public_key" \o ToString(k) \o " = secret_key" \o ToString(k)
        \o ".public_key()"

\* f'secret_key{key_counter}, public_key{key_counter}, ': what the rewritten
\* call gains between 'Gun::with_options(' and the options variable
KeyArgs(k) ==
    "secret_key" \o ToString(k) \o ", public_key" \o ToString(k) \o ", "

(***************************************************************************)
(* The character classes and literals of the script, on lexemes.           *)
(***************************************************************************)
\* \s
IsSpace(t) == t \in {NL, IND}

\* \w+
IsWord(t) == t = OPTIONS

\* let\s+\w+\s*=\s* (the bindings of generated key names are always followed
\* by SecretKey::from_seed, which no pattern that asks for a binding accepts)
IsLetBinding(t) == t \in {LET_GUN, LET_NODE, LET_G, LET_SECRET_KEY0}

\* the lexemes in which the characters 'use ' occur
HasUseWord(t) == t \in {USE_GUN, USE_CHIA, USE_STD, COMMENT}

Contains(text, t) == \E i \in 1..Len(text) : text[i] = t

\* 'use gun::' in content
UsesGun(text) == \E i \in 1..Len(text) : text[i] \in {USE_GUN, COMMENT}

\* a test for the import that never finds it
NeverHasKeyImport(text) == FALSE

\* 'use chia_bls::' in content
HasKeyImport(text) == Contains(text, USE_CHIA)

\* 'SecretKey::from_seed' in text
ContainsFromSeed(text) == Contains(text, FROM_SEED)

(***************************************************************************)
(* Texts and lines.                                                        *)
(***************************************************************************)
Min(S) == CHOOSE x \in S : \A y \in S : x <= y

Max(S) == CHOOSE x \in S : \A y \in S : y <= x

\* text[from:] of Python, on 1-based positions
From(text, from) == SubSeq(text, from, Len(text))

\* content.split('\n')
RECURSIVE Split(_)
Split(text) ==
    LET S == {i \in 1..Len(text) : text[i] = NL} IN
    IF S = {} THEN <<text>>
    ELSE <<SubSeq(text, 1, Min(S) - 1)>> \o Split(From(text, Min(S) + 1))

\* '\n'.join(new_lines)
RECURSIVE Join(_)
Join(ls) ==
    IF ls = <<>> THEN <<>>
    ELSE IF Len(ls) = 1 THEN ls[1]
    ELSE ls[1] \o <<NL>> \o Join(Tail(ls))

(***************************************************************************)
(* The Import Augmenter.                                                   *)
(***************************************************************************)
\* where the next 'use ' at or after `from` is, 0 if nowhere
NextUse(text, from) ==
    LET S == {i \in from..Len(text) : HasUseWord(text[i])} IN
    IF S = {} THEN 0 ELSE Min(S)

\* where the next ';' at or after `from` is, 0 if nowhere
NextSemi(text, from) ==
    LET S == {i \in from..Len(text) : text[i] = SEMI} IN
    IF S = {} THEN 0 ELSE Min(S)

\* list(re.finditer(r'(use [^;]+;)', content)): the matches from `from` on,
\* left to right and not overlapping; each runs from a 'use ' to the first ';'
\* after it, whatever lies between
RECURSIVE use_matches(_, _)
use_matches(text, from) ==
    LET s == NextUse(text, from) IN
    IF s = 0 THEN <<>>
    ELSE LET e == NextSemi(text, s + 1) IN
         IF e = 0 THEN <<>>
         ELSE <<[start |-> s, end |-> e]>> \o use_matches(text, e + 1)

\* '\nuse chia_bls::{SecretKey, PublicKey};'
import_line == <<NL, USE_CHIA, SEMI>>

\* content[:insert_pos] + ... + content[insert_pos:]
InsertAt(text, insert_pos, what) ==
    SubSeq(text, 1, insert_pos) \o what \o From(text, insert_pos + 1)

\* the first test alone
NeedsImportUnchecked(text) == UsesGun(text)

\* the two tests that guard the insertion
NeedsImport(text) == UsesGun(text) /\ ~HasKeyImport(text)

ImportAugmenter(text, upd) ==
    LET matches == use_matches(text, 1) IN
    IF NeedsImport(text) /\ matches # <<>>
    THEN [content |-> InsertAt(text, matches[Len(matches)].end, import_line),
          updated |-> TRUE]
    ELSE [content |-> text, updated |-> upd]

(***************************************************************************)
(* The No-Argument Constructor Rewriter.                                   *)
(***************************************************************************)
\* r'(\s+)(let\s+gun\s*=\s*)Gun::new\(\);'
pattern == [any_name |-> FALSE, open |-> <<>>, close |-> <<SEMI>>]

\* r'(\s+)(let\s+\w+\s*=\s*Arc::new\()Gun::new\(\)\);'
pattern2 == [any_name |-> TRUE, open |-> <<ARC_NEW>>, close |-> <<RPAREN, SEMI>>]

\* the lexemes a match holds after its white space
TailLen(p) == 1 + Len(p.open) + 1 + Len(p.close)

\* the greedy (\s+) from position i: the last position of the run of white
\* space that starts there
SpaceRunEnd(text, i) ==
    Max({e \in i..Len(text) : \A j \in i..e : IsSpace(text[j])})

\* the pattern matches with its (\s+) ending at e
MatchAt(p, text, e) ==
    /\ e + TailLen(p) <= Len(text)
    /\ IF p.any_name THEN IsLetBinding(text[e + 1]) ELSE text[e + 1] = LET_GUN
    /\ SubSeq(text, e + 2, e + TailLen(p)) = p.open \o <<GUN_NEW>> \o p.close

\* replacement and replacement2: \1 is g1, \2 is g2
Replacement(p, g1, g2) ==
    g1 \o <<GEN_COMMENT, NL>>
       \o g1 \o <<LET_SECRET_KEY0, FROM_SEED, SEED0, SEMI, SEED_TAIL, SEMI, NL>>
       \o g1 \o <<PUBLIC_KEY0, SEMI, NL>>
       \o g1 \o g2 \o <<GUN_NEW_KEYS>> \o p.close

\* re.sub(pattern, replacement, content) from position i on
RECURSIVE re_sub(_, _, _)
re_sub(p, text, i) ==
    IF i > Len(text) THEN <<>>
    ELSE IF ~IsSpace(text[i]) THEN <<text[i]>> \o re_sub(p, text, i + 1)
    ELSE LET e == SpaceRunEnd(text, i) IN
         IF MatchAt(p, text, e)
         THEN Replacement(p, SubSeq(text, i, e), <<text[e + 1]>> \o p.open)
                  \o re_sub(p, text, e + TailLen(p) + 1)
         ELSE SubSeq(text, i, e) \o re_sub(p, text, e + 1)

NoArgRewriter(text, upd) ==
    IF Contains(text, GUN_NEW)
    THEN LET c1 == re_sub(pattern, text, 1)
             c2 == re_sub(pattern2, c1, 1)
         IN [content |-> c2, updated |-> upd \/ c1 # text \/ c2 # c1]
    ELSE [content |-> text, updated |-> upd]

(***************************************************************************)
(* The Options-Argument Constructor Rewriter.                              *)
(***************************************************************************)
\* the 5 of lines[max(0, i-5):i]
LOOKBACK == 5

\* 'SecretKey::from_seed' in '\n'.join(lines[max(0, i-5):i]), i counted from 1
LookbackHasFromSeed(ls, i) ==
    \E j \in 1..(i - 1) : j >= i - LOOKBACK /\ ContainsFromSeed(ls[j])

\* ' ' * (len(line) - len(line.lstrip()))
indent_str(line) ==
    SubSeq(line, 1, Max({n \in 0..Len(line) : \A j \in 1..n : IsSpace(line[j])}))

\* re.search(r'Gun::with_options\((\w+)\)', line): where the first match
\* starts, 0 if there is none
CallAt(line) ==
    LET S == {i \in 1..(Len(line) - 2) :
                 /\ line[i] = WITH_OPTIONS
                 /\ IsWord(line[i + 1])
                 /\ line[i + 2] = RPAREN}
    IN IF S = {} THEN 0 ELSE Min(S)

\* key_gen.rstrip()
key_gen(indent, k) ==
    indent \o <<LetSecretKey(k), FROM_SEED, Seed(k), SEMI, SEED_TAIL, SEMI, NL>>
           \o indent \o <<PublicKeyStmt(k), SEMI>>

\* line.replace(f'Gun::with_options({options_var})',
\*              f'Gun::with_options(secret_key{k}, public_key{k}, {options_var})')
RECURSIVE ReplaceCall(_, _, _)
ReplaceCall(line, options_var, k) ==
    IF Len(line) < 3 THEN line
    ELSE IF SubSeq(line, 1, 3) = <<WITH_OPTIONS, options_var, RPAREN>>
         THEN <<WITH_OPTIONS, KeyArgs(k), options_var, RPAREN>>
                  \o ReplaceCall(From(line, 4), options_var, k)
         ELSE <<line[1]>> \o ReplaceCall(Tail(line), options_var, k)

\* the counter left as it is
SameKeyCounter(k) == k

\* key_counter += 1
NextKeyCounter(k) == k + 1

\* the while loop from line i on; st holds new_lines, key_counter, updated
RECURSIVE options_loop(_, _, _)
options_loop(ls, i, st) ==
    IF i > Len(ls) THEN st
    ELSE LET line == ls[i]
             k == st.key_counter
         IN IF /\ Contains(line, WITH_OPTIONS)
               /\ ~LookbackHasFromSeed(ls, i)
               /\ CallAt(line) # 0
            THEN options_loop(ls, i + 1,
                     [new_lines |-> st.new_lines
                          \o <<key_gen(indent_str(line), k),
                               ReplaceCall(line, line[CallAt(line) + 1], k)>>,
                      key_counter |-> NextKeyCounter(k),
                      updated |-> TRUE])
            ELSE options_loop(ls, i + 1,
                     [st EXCEPT !.new_lines = Append(@, line)])

\* lines, new_lines and key_counter are bound only when the pass is entered;
\* <<>> and 0 stand for the unbound names
OptionsRewriter(text, upd) ==
    IF Contains(text, WITH_OPTIONS)
    THEN LET ls == Split(text)
             st == options_loop(ls, 1, [new_lines |-> <<>>, key_counter |-> 1,
                                        updated |-> upd])
         IN [content |-> IF st.updated THEN Join(st.new_lines) ELSE text,
             updated |-> st.updated,
             lines |-> ls,
             new_lines |-> st.new_lines,
             key_counter |-> st.key_counter]
    ELSE [content |-> text, updated |-> upd, lines |-> <<>>,
          new_lines |-> <<>>, key_counter |-> 0]

(***************************************************************************)
(* The files the runs start from.                                          *)
(***************************************************************************)
UseGunLine == <<USE_GUN, SEMI>>
UseChiaLine == <<USE_CHIA, SEMI>>
UseStdLine == <<USE_STD, SEMI>>
CommentLine == <<COMMENT>>
LetGunLine == <<IND, LET_GUN, GUN_NEW, SEMI>>
LetArcLine == <<IND, LET_NODE, ARC_NEW, GUN_NEW, RPAREN, SEMI>>
SiteLine == <<IND, LET_G, WITH_OPTIONS, OPTIONS, RPAREN, AWAIT, SEMI>>
MatchSiteLine == <<IND, LET_G_MATCH, WITH_OPTIONS, OPTIONS, RPAREN, AWAIT, BRACE>>
KeyGenLine == <<IND, LET_SECRET_KEY0, FROM_SEED, SEED0, SEMI, SEED_TAIL, SEMI>>
BlankLine == <<>>

LineKinds == {UseGunLine, UseChiaLine, UseStdLine, CommentLine, LetGunLine,
              LetArcLine, SiteLine, MatchSiteLine, KeyGenLine, BlankLine}

MainLineKinds == {SiteLine}

\* the texts of at most n lines of the given kinds
Texts(kinds, n) ==
    {Join(ls) : ls \in UNION {[1..m -> kinds] : m \in 0..n}}

(***************************************************************************)
(* main and update_file.                                                   *)
(***************************************************************************)
\* the orders in which the globs can hand over the paths
Orders(paths) ==
    {o \in [1..Cardinality(paths) -> paths] :
        \A i, j \in DOMAIN o : i # j => o[i] # o[j]}

\* the list iterated as the globs filled it
Unsorted(s) == s

\* sorted(files_to_update)
RECURSIVE Sorted(_)
Sorted(s) ==
    IF s = <<>> THEN <<>>
    ELSE LET m == Min({s[i] : i \in DOMAIN s})
             at == Min({i \in DOMAIN s : s[i] = m})
         IN <<m>> \o Sorted(SubSeq(s, 1, at - 1) \o From(s, at + 1))

\* the file written whatever the passes did
WriteAlways(upd, text, original) == TRUE

\* updated and content != original_content
ShouldWrite(upd, text, original) == upd /\ text # original

\* the file update_file is working on
file_path == sorted_files[idx]

InitWith(paths, texts) ==
    /\ fs \in [paths -> texts]
    /\ fs0 = fs
    /\ runs = 1
    /\ io_failed = FALSE
    /\ pc = "main"
    /\ files_to_update = <<>>
    /\ sorted_files = <<>>
    /\ idx = 0
    /\ updated_count = 0
    /\ output = <<>>
    /\ io_log = <<>>
    /\ content = <<>>
    /\ original_content = <<>>
    /\ updated = FALSE
    /\ lines = <<>>
    /\ new_lines = <<>>
    /\ key_counter = 0
    /\ ret = FALSE

\* one file, of every text of at most MaxLines lines
Init == InitWith({1}, Texts(LineKinds, MaxLines))

\* NumFiles files of at most MainLines lines
InitMain == InitWith(1..NumFiles, Texts(MainLineKinds, MainLines))

update_file_locals == <<content, original_content, updated, lines, new_lines,
                        key_counter, ret>>

main_locals == <<files_to_update, sorted_files, idx, updated_count>>

\* main up to the for loop: the globs, sorted(), updated_count = 0
Discover ==
    /\ pc = "main"
    /\ files_to_update' \in Orders(DOMAIN fs)
    /\ sorted_files' = Sorted(files_to_update')
    /\ idx' = 1
    /\ updated_count' = 0
    /\ pc' = "loop"
    /\ UNCHANGED <<fs, fs0, runs, io_failed, output, io_log, update_file_locals>>

\* the for loop takes its next file and calls update_file
CallUpdateFile ==
    /\ pc = "loop"
    /\ idx <= Len(sorted_files)
    /\ pc' = "read"
    /\ UNCHANGED <<fs, fs0, runs, io_failed, output, io_log, main_locals,
                   update_file_locals>>

\* the for loop is over: print the total
PrintTotal ==
    /\ pc = "loop"
    /\ idx > Len(sorted_files)
    /\ output' = Append(output, [kind |-> "Total", value |-> updated_count])
    /\ pc' = "done"
    /\ UNCHANGED <<fs, fs0, runs, io_failed, io_log, main_locals,
                   update_file_locals>>

\* open(file_path, 'r') and f.read() succeed
ReadOk ==
    /\ pc = "read"
    /\ content' = fs[file_path]
    /\ original_content' = fs[file_path]
    /\ updated' = FALSE
    /\ lines' = <<>>
    /\ new_lines' = <<>>
    /\ key_counter' = 0
    /\ ret' = FALSE
    /\ io_log' = Append(io_log, [op |-> "read", path |-> file_path,
                                 ok |-> TRUE, text |-> fs[file_path]])
    /\ pc' = "augment"
    /\ UNCHANGED <<fs, fs0, runs, io_failed, output, main_locals>>

\* open(file_path, 'r') or f.read() raises: nothing catches it
ReadFail ==
    /\ pc = "read"
    /\ io_log' = Append(io_log, [op |-> "read", path |-> file_path,
                                 ok |-> FALSE, text |-> <<>>])
    /\ io_failed' = TRUE
    /\ pc' = "aborted"
    /\ UNCHANGED <<fs, fs0, runs, output, main_locals, update_file_locals>>

Augment ==
    /\ pc = "augment"
    /\ LET r == ImportAugmenter(content, updated) IN
         /\ content' = r.content
         /\ updated' = r.updated
    /\ pc' = "noarg"
    /\ UNCHANGED <<fs, fs0, runs, io_failed, output, io_log, main_locals,
                   original_content, lines, new_lines, key_counter, ret>>

RewriteNoArg ==
    /\ pc = "noarg"
    /\ LET r == NoArgRewriter(content, updated) IN
         /\ content' = r.content
         /\ updated' = r.updated
    /\ pc' = "options"
    /\ UNCHANGED <<fs, fs0, runs, io_failed, output, io_log, main_locals,
                   original_content, lines, new_lines, key_counter, ret>>

RewriteOptions ==
    /\ pc = "options"
    /\ LET r == OptionsRewriter(content, updated) IN
         /\ content' = r.content
         /\ updated' = r.updated
         /\ lines' = r.lines
         /\ new_lines' = r.new_lines
         /\ key_counter' = r.key_counter
    /\ pc' = "persist"
    /\ UNCHANGED <<fs, fs0, runs, io_failed, output, io_log, main_locals,
                   original_content, ret>>

\* open(file_path, 'w'), f.write(content), return True
WriteOk ==
    /\ pc = "persist"
    /\ ShouldWrite(updated, content, original_content)
    /\ fs' = [fs EXCEPT ![file_path] = content]
    /\ io_log' = Append(io_log, [op |-> "write", path |-> file_path,
                                 ok |-> TRUE, text |-> content])
    /\ ret' = TRUE
    /\ pc' = "returned"
    /\ UNCHANGED <<fs0, runs, io_failed, output, main_locals, content,
                   original_content, updated, lines, new_lines, key_counter>>

\* open(file_path, 'w') raises and the file is as it was, or the write raises
\* after open has truncated the file; nothing catches it
WriteFail ==
    /\ pc = "persist"
    /\ ShouldWrite(updated, content, original_content)
    /\ \E left \in {fs[file_path], <<>>} :
         fs' = [fs EXCEPT ![file_path] = left]
    /\ io_log' = Append(io_log, [op |-> "write", path |-> file_path,
                                 ok |-> FALSE, text |-> content])
    /\ io_failed' = TRUE
    /\ pc' = "aborted"
    /\ UNCHANGED <<fs0, runs, output, main_locals, update_file_locals>>

\* return False
NoWrite ==
    /\ pc = "persist"
    /\ ~ShouldWrite(updated, content, original_content)
    /\ ret' = FALSE
    /\ pc' = "returned"
    /\ UNCHANGED <<fs, fs0, runs, io_failed, output, io_log, main_locals,
                   content, original_content, updated, lines, new_lines,
                   key_counter>>

\* back in main: print and count the file if update_file returned True
Report ==
    /\ pc = "returned"
    /\ IF ret
       THEN /\ output' = Append(output, [kind |-> "Updated",
                                         value |-> file_path])
            /\ updated_count' = updated_count + 1
       ELSE UNCHANGED <<output, updated_count>>
    /\ idx' = idx + 1
    /\ pc' = "loop"
    /\ UNCHANGED <<fs, fs0, runs, io_failed, io_log, files_to_update,
                   sorted_files, update_file_locals>>

\* the script is started again on the files as the last run left them
Rerun ==
    /\ pc \in {"done", "aborted"}
    /\ runs < MaxRuns
    /\ runs' = runs + 1
    /\ pc' = "main"
    /\ files_to_update' = <<>>
    /\ sorted_files' = <<>>
    /\ idx' = 0
    /\ updated_count' = 0
    /\ output' = <<>>
    /\ io_log' = <<>>
    /\ content' = <<>>
    /\ original_content' = <<>>
    /\ updated' = FALSE
    /\ lines' = <<>>
    /\ new_lines' = <<>>
    /\ key_counter' = 0
    /\ ret' = FALSE
    /\ UNCHANGED <<fs, fs0, io_failed>>

Next ==
    \/ Discover
    \/ CallUpdateFile
    \/ PrintTotal
    \/ ReadOk
    \/ ReadFail
    \/ Augment
    \/ RewriteNoArg
    \/ RewriteOptions
    \/ WriteOk
    \/ WriteFail
    \/ NoWrite
    \/ Report
    \/ Rerun

Spec == Init /\ [][Next]_vars

SpecMain == InitMain /\ [][Next]_vars

(***************************************************************************)
(* What the claims speak of.                                               *)
(***************************************************************************)
\* update_file has run its three passes on the file it read
Transformed == pc \in {"persist", "returned"}

\* occurrences of the key-pair import 'use chia_bls::{SecretKey, PublicKey};'
ImportLines(text) ==
    Cardinality({i \in 1..(Len(text) - 1) :
                    text[i] = USE_CHIA /\ text[i + 1] = SEMI})

\* occurrences of a key-generation statement
KeyGenerations(text) == Cardinality({i \in 1..Len(text) : text[i] = FROM_SEED})

\* the import statements of a text: where each one's ';' stands
ImportEnds(text) ==
    {i + 1 : i \in {j \in 1..(Len(text) - 1) :
                       /\ text[j] \in {USE_GUN, USE_CHIA, USE_STD}
                       /\ text[j + 1] = SEMI
                       /\ (j = 1 \/ text[j - 1] = NL)}}

\* the opens of the running call of update_file: from its read on
CallStart == Max({n \in 1..Len(io_log) : io_log[n].op = "read"})

WritesOfCall ==
    {n \in CallStart..Len(io_log) : io_log[n].op = "write"}

\* the secret-key and public-key lines of key pair k, and the call with them
SecretKeyLine(ind, k) ==
    ind \o <<LetSecretKey(k), FROM_SEED, Seed(k), SEMI, SEED_TAIL, SEMI>>

PublicKeyLine(ind, k) == ind \o <<PublicKeyStmt(k), SEMI>>

KeyedCall(k) == <<WITH_OPTIONS, KeyArgs(k), OPTIONS, RPAREN>>

HoldsAt(line, i, what) ==
    /\ i + Len(what) - 1 <= Len(line)
    /\ SubSeq(line, i, i + Len(what) - 1) = what

Holds(line, what) == \E i \in 1..Len(line) : HoldsAt(line, i, what)

----------------------------------------------------------------------------
\* C1: in a file without any SecretKey::from_seed, after update_file no line
\* holds a call Gun::with_options(<identifier>) any more: each line with a
\* call holds the call with a key pair ahead of the options and follows that
\* pair's secret-key line and public-key line.
C1_EveryOptionsCallRewritten ==
    (Transformed /\ ~ContainsFromSeed(original_content)) =>
        LET ls == Split(content) IN
        \A n \in 1..Len(ls) :
            Contains(ls[n], WITH_OPTIONS) =>
                /\ ~Holds(ls[n], <<WITH_OPTIONS, OPTIONS, RPAREN>>)
                /\ \E k \in 1..Len(ls) :
                      /\ Holds(ls[n], KeyedCall(k))
                      /\ n >= 3
                      /\ ls[n - 2] = SecretKeyLine(indent_str(ls[n]), k)
                      /\ ls[n - 1] = PublicKeyLine(indent_str(ls[n]), k)

\* C2: where 'let gun = Gun::new();' or 'let node = Arc::new(Gun::new());'
\* stood on a line of its own after an import, the no-argument rewriter
\* leaves the rewritten binding right after the public-key line, which is
\* right after the secret-key line, all with the binding's indentation, and
\* one secret-key line per binding.
AfterImport(text) ==
    LET ls == Split(text) IN
    \E m, n \in 1..Len(ls) :
        /\ m < n
        /\ ls[m] \in {UseGunLine, UseChiaLine, UseStdLine}
        /\ ls[n] \in {LetGunLine, LetArcLine}

RewrittenBindings ==
    {<<IND, LET_GUN, GUN_NEW_KEYS, SEMI>>,
     <<IND, LET_NODE, ARC_NEW, GUN_NEW_KEYS, RPAREN, SEMI>>}

C2_NoArgBlockShape ==
    (pc = "options" /\ AfterImport(original_content)
         /\ ~ContainsFromSeed(original_content)) =>
        LET ls == Split(content)
            bindings == {n \in 1..Len(ls) : ls[n] \in RewrittenBindings}
        IN /\ ~Contains(content, GUN_NEW)
           /\ KeyGenerations(content) = Cardinality(bindings)
           /\ \A n \in bindings :
                 /\ n >= 3
                 /\ ls[n - 1] = <<IND, PUBLIC_KEY0, SEMI>>
                 /\ ls[n - 2] = <<IND, LET_SECRET_KEY0, FROM_SEED, SEED0,
                                  SEMI, SEED_TAIL, SEMI>>

\* C3: in every call of update_file the k-th key-generation block the options
\* rewriter inserts is the pair secret_key<k>/public_key<k> with seed <k>u8,
\* the line after it holds the call with that pair, and the counter ends one
\* above the number of blocks: the numbering starts at 1 in every file.
KeyBlocks == {n \in 1..Len(new_lines) : Contains(new_lines[n], NL)}

C4_SecondRunIsNoOp ==
    (pc = "returned" /\ runs >= 2 /\ ~io_failed) =>
        /\ ~ret
        /\ content = original_content
        /\ WritesOfCall = {}
        /\ fs[file_path] = original_content

\* C5: a call of update_file that returns has written the file iff the text
\* after the three passes differs from the text read, returns True iff it
\* wrote, wrote exactly that text, and wrote at most once; a failed write was
\* attempted only for a text that differs.
C5_WriteIffChanged ==
    /\ pc = "returned" =>
          /\ ret <=> (content # original_content)
          /\ ret <=> (WritesOfCall # {})
          /\ Cardinality(WritesOfCall) <= 1
          /\ \A n \in WritesOfCall :
                io_log[n].ok /\ io_log[n].text = content
                    /\ io_log[n].path = file_path
          /\ fs[file_path] = content
    /\ (pc = "aborted" /\ WritesOfCall # {}) =>
          /\ content # original_content
          /\ Cardinality(WritesOfCall) = 1

C5_Witness ==
    /\ pc = "returned"
    /\ ret
    /\ content # original_content
    /\ fs[file_path] = content
    /\ Cardinality(WritesOfCall) = 1

\* C6: when the text references 'use gun::' and has no key-pair import, the
\* Import Augmenter's output is its input with the import line put right
\* after the last import statement, and nothing else changed.
C6_ImportAfterLastImport ==
    (pc = "noarg" /\ UsesGun(original_content)
         /\ ~Contains(original_content, USE_CHIA)
         /\ ImportEnds(original_content) # {}) =>
        content = SubSeq(original_content, 1, Max(ImportEnds(original_content)))
                      \o <<NL, USE_CHIA, SEMI>>
                      \o From(original_content,
                              Max(ImportEnds(original_content)) + 1)

\* C7: a file with no 'Gun::new()', no 'Gun::with_options(' and no 'use gun::'
\* that lacks the key-pair import is not written, keeps its text, makes
\* update_file return False, and is neither printed nor counted by main.
NothingToMigrate(text) ==
    /\ ~Contains(text, GUN_NEW)
    /\ ~Contains(text, WITH_OPTIONS)
    /\ ~(UsesGun(text) /\ Contains(text, USE_CHIA) = FALSE)

C7_UntouchedFileUnchanged ==
    /\ (pc = "returned" /\ NothingToMigrate(original_content)) =>
          /\ ~ret
          /\ content = original_content
          /\ WritesOfCall = {}
          /\ fs[file_path] = original_content
    /\ (pc = "loop" /\ idx > 1 /\ NothingToMigrate(original_content)) =>
          /\ fs[sorted_files[idx - 1]] = original_content
          /\ \A n \in 1..Len(output) :
                output[n] # [kind |-> "Updated",
                             value |-> sorted_files[idx - 1]]

\* a file that uses the namespace, has the import and nothing to rewrite
C7_Witness ==
    /\ pc = "loop"
    /\ idx > 1
    /\ NothingToMigrate(original_content)
    /\ UsesGun(original_content)
    /\ Contains(original_content, USE_CHIA)
    /\ ContainsFromSeed(original_content)
    /\ updated_count = 0

\* C8: update_file leaves the number of key-pair import lines of a file that
\* has one as it is, and over all runs a file gains at most one.
C8_ImportNeverDuplicated ==
    /\ (Transformed /\ ImportLines(original_content) >= 1) =>
          ImportLines(content) = ImportLines(original_content)
    /\ \A p \in DOMAIN fs :
          /\ ImportLines(fs[p]) <= ImportLines(fs0[p]) + 1
          /\ ImportLines(fs0[p]) >= 1 => ImportLines(fs[p]) <= ImportLines(fs0[p])

\* the second run reads a file that references the namespace twice and got
\* its import line from the first run
C8_Witness ==
    /\ pc = "returned"
    /\ runs = 2
    /\ ImportLines(fs0[file_path]) = 0
    /\ ImportLines(original_content) = 1
    /\ Cardinality({i \in 1..Len(original_content) :
                       original_content[i] \in {USE_GUN, COMMENT}}) >= 2
    /\ ImportLines(fs[file_path]) = 1

\* C10: when the text update_file writes has gained a key-generation
\* statement, it holds an import of the key-pair library.
C10_InsertedKeysHaveImport ==
    (pc = "returned" /\ ret
         /\ KeyGenerations(content) > KeyGenerations(original_content)) =>
        HasKeyImport(fs[file_path])

\* C9: main reads the files one after another in ascending path order, each
\* write follows the read of the same file, a failed open, read or write is
\* the last thing a run does and leaves no total printed and the files
\* written before it as written; a run without failure reads every file once
\* and prints as total the number of files written.  No step changes a file
\* other than the one update_file is persisting.
IsAscending(s) == \A i \in 1..(Len(s) - 1) : s[i] < s[i + 1]

ReadsOfRun == SelectSeq(io_log, LAMBDA e : e.op = "read")

WrittenOfRun == SelectSeq(io_log, LAMBDA e : e.op = "write" /\ e.ok)

UpdatedLines == SelectSeq(output, LAMBDA o : o.kind = "Updated")

TotalLines == SelectSeq(output, LAMBDA o : o.kind = "Total")

C9_Sequential ==
    /\ pc # "main" =>
          /\ IsAscending(sorted_files)
          /\ Len(sorted_files) = Cardinality(DOMAIN fs)
          /\ {sorted_files[i] : i \in DOMAIN sorted_files} = DOMAIN fs
          /\ {files_to_update[i] : i \in DOMAIN files_to_update} = DOMAIN fs
    /\ \A n \in 1..Len(ReadsOfRun) : ReadsOfRun[n].path = sorted_files[n]
    /\ \A n \in 1..Len(io_log) :
          /\ n < Len(io_log) => io_log[n].ok
          /\ io_log[n].op = "write" =>
                /\ n > 1
                /\ io_log[n - 1].op = "read"
                /\ io_log[n - 1].path = io_log[n].path
    /\ Len(UpdatedLines) <= Len(WrittenOfRun)
    /\ \A n \in 1..Len(UpdatedLines) :
          UpdatedLines[n].value = WrittenOfRun[n].path

C9_AbortedRun ==
    pc = "aborted" =>
        /\ io_log # <<>>
        /\ ~io_log[Len(io_log)].ok
        /\ io_log[Len(io_log)].path = sorted_files[idx]
        /\ Len(ReadsOfRun) = idx
        /\ TotalLines = <<>>
        /\ \A n \in 1..Len(WrittenOfRun) :
              fs[WrittenOfRun[n].path] = WrittenOfRun[n].text

C9_CompletedRun ==
    pc = "done" =>
        /\ Len(ReadsOfRun) = Len(sorted_files)
        /\ \A n \in 1..Len(io_log) : io_log[n].ok
        /\ TotalLines = <<[kind |-> "Total", value |-> Len(WrittenOfRun)]>>
        /\ output[Len(output)].kind = "Total"
        /\ Len(UpdatedLines) = Len(WrittenOfRun)

C9_OnlyCurrentFileChanges ==
    \A p \in DOMAIN fs :
        fs'[p] # fs[p] => (pc = "persist" /\ p = sorted_files[idx])

C9_RunSequentialOrAborts ==
    /\ [](C9_Sequential /\ C9_AbortedRun /\ C9_CompletedRun)
    /\ [][C9_OnlyCurrentFileChanges]_vars

\* the run stops at its second file after it has written the first, and the
\* globs had handed the files over in another order than the sorted one
C9_Witness ==
    /\ pc = "aborted"
    /\ idx = 2
    /\ files_to_update # sorted_files
    /\ Len(WrittenOfRun) = 1
    /\ WrittenOfRun[1].path = sorted_files[1]
    /\ fs[sorted_files[1]] # fs0[sorted_files[1]]
    /\ UpdatedLines = <<[kind |-> "Updated", value |-> sorted_files[1]]>>

====
